---- MODULE Spec2Model ----
(***************************************************************************)
(* Model of app.py (smart-study-assistant, authenticated variant): the     *)
(* Flask request handlers, the sqlite history/users tables, the summarizer *)
(* fallback and the PDF/text extraction of the upload route.               *)
(*                                                                         *)
(* Strings that are sliced or measured by the code are run-length encoded: *)
(* a text is a sequence of runs [c, n] (n >= 1, adjacent runs differ in c),*)
(* so that the code's own limits (5, 150, 3000 characters) are kept.       *)
(***************************************************************************)
EXTENDS Integers, Sequences, FiniteSets, TLC

VARIABLES
    users,            \* users table: sequence of rows [id, username, password]
    history,          \* history table (committed rows, in rowid order)
    sqlite_sequence,  \* AUTOINCREMENT counter of the history table
    dbWriter,         \* worker holding sqlite's write lock, or NoWorker
    pending,          \* per worker: the row inserted but not yet committed
    now,              \* server clock in whole seconds (CURRENT_TIMESTAMP)
    session,          \* per client: the "user" key of the session cookie
    hf_summarizer,    \* module global: primary model handle or NoModel
    PyPDF2,           \* module global: PDF parser module or NoModule
    pc,               \* per worker: position inside the request it serves
    req,              \* per worker: the request being served
    original_text,    \* per worker: local original_text / text
    summary_output,   \* per worker: local summary_output
    calls,            \* per worker: summarizer back ends invoked, in order
    trace,            \* per worker: phases of the request, in order
    rec,              \* per worker: ids of the rows its add_history inserted
    resp              \* per worker: the response returned

vars == <<users, history, sqlite_sequence, dbWriter, pending, now, session,
          hf_summarizer, PyPDF2, pc, req, original_text, summary_output,
          calls, trace, rec, resp>>

-----------------------------------------------------------------------------
(* Bounds *)

MaxHistory == 2
MaxTime == 1
\* rows recorded before the request under study, in the specification that
\* varies the inputs
MaxEarlier == 1

Workers == {"w1", "w2"}
Clients == {"c1"}

NoWorker == "none"
\* no "user" key in the session (a stored username is never empty)
NoUser == <<>>
NoModel == "None"
NoModule == "None"

-----------------------------------------------------------------------------
(* Run-length encoded strings *)

Run(c, n) == [c |-> c, n |-> n]

Str(c, n) == IF n = 0 THEN <<>> ELSE <<Run(c, n)>>

RECURSIVE TLen(_)
TLen(t) == IF t = <<>> THEN 0 ELSE Head(t).n + TLen(Tail(t))

IsSpace(c) == c = " "

RECURSIVE LStrip(_)
LStrip(t) ==
    IF t = <<>> THEN <<>>
    ELSE IF IsSpace(Head(t).c) THEN LStrip(Tail(t)) ELSE t

RECURSIVE RStrip(_)
RStrip(t) ==
    IF t = <<>> THEN <<>>
    ELSE IF IsSpace(t[Len(t)].c) THEN RStrip(SubSeq(t, 1, Len(t) - 1)) ELSE t

\* str.strip()
Strip(t) == RStrip(LStrip(t))

\* t[:k]
RECURSIVE Take(_, _)
Take(t, k) ==
    IF k = 0 \/ t = <<>> THEN <<>>
    ELSE IF Head(t).n <= k
         THEN <<Head(t)>> \o Take(Tail(t), k - Head(t).n)
         ELSE <<Run(Head(t).c, k)>>

\* s + t
Concat(s, t) ==
    IF s = <<>> THEN t
    ELSE IF t = <<>> THEN s
    ELSE IF s[Len(s)].c = Head(t).c
         THEN SubSeq(s, 1, Len(s) - 1)
              \o <<Run(Head(t).c, s[Len(s)].n + Head(t).n)>>
              \o Tail(t)
         ELSE s \o t

\* t is a prefix of s, character by character
IsPrefix(t, s) == Take(s, TLen(t)) = t

-----------------------------------------------------------------------------
(* Program constants *)

SummaryInputMax == 3000
VoiceExcerptMax == 150
VoiceTextMin == 5

ActUpload == "Upload & Summarize"
ActText == "Text Summarize"
ActVoice == "Voice Generated"
TextInputName == "Text Input"

-----------------------------------------------------------------------------
(* Inputs the requests are drawn from *)

Blank == Str(" ", 2)
Short == Str("a", 4)
Padded == <<Run(" ", 1), Run("a", 5), Run(" ", 1)>>
Long == <<Run("a", 150), Run("b", 4)>>
Huge == <<Run(" ", 1), Run("a", 3000), Run("b", 1)>>

FormTexts == {<<>>, Blank, Short, Padded, Long, Huge}

\* the inputs of the specification with concurrent requests and login
FewTexts == {Blank, Padded}

RegisterEmails == {<<>>, <<Run(" ", 1), Run("a", 1)>>}
LoginEmails == {Str("a", 1), Str("b", 1)}
PasswordInputs == {<<>>, <<Run("p", 1), Run(" ", 1)>>, Str("q", 1)}
NameInputs == {<<>>, Str("n", 1)}
Salts == {"s1"}

\* what page.extract_text() does on one page
Page(raises, text) == [raises |-> raises, text |-> text]
PageOutcomes == {Page(TRUE, <<>>), Page(FALSE, <<>>), Page(FALSE, Str("a", 6))}

MaxPages == 2

PageSeqs == UNION {[1..n -> PageOutcomes] : n \in 0..MaxPages}

\* an uploaded file: its name, its bytes decoded as utf-8 (errors ignored),
\* and what PyPDF2.PdfReader makes of its bytes
File(filename, text, opens, pages) ==
    [filename |-> filename, text |-> text, opens |-> opens, pages |-> pages]

NoFile == File("", <<>>, FALSE, <<>>)

Files ==
    {NoFile}
    \cup {File(n, t, FALSE, <<>>) :
             n \in {"notes.txt", "NOTES.TXT", "notes.doc"}, t \in {Blank, Padded}}
    \cup {File("slides.pdf", Str("%", 1), FALSE, <<>>)}
    \cup {File("slides.pdf", Str("%", 1), TRUE, ps) : ps \in PageSeqs}

\* filename.lower()
Lower(name) == IF name = "NOTES.TXT" THEN "notes.txt" ELSE name

\* str.endswith
EndsWith(name, suffix) ==
    CASE suffix = ".txt" -> name \in {"notes.txt"}
      [] suffix = ".pdf" -> name \in {"slides.pdf"}
      [] OTHER -> FALSE

FewFiles == {NoFile, File("NOTES.TXT", Padded, FALSE, <<>>)}

HistoryIds == 0..(MaxHistory + 1)

-----------------------------------------------------------------------------
(* Values *)

\* a value of the summary column: which code produced it, and from what text
Summary(by, of) == [by |-> by, of |-> of]

EmptySummary == Summary("str", <<>>)

\* result[0]["summary_text"] of the BART pipeline on text t
HfResult(t) == Summary("bart", t)

\* " ".join(str(s) for s in lex(parser.document, 5)) on text t
LexRankResult(t) == Summary("lexrank", t)

HistoryRow(id, action, filename, summary, timestamp) ==
    [id |-> id, action |-> action, filename |-> filename,
     summary |-> summary, timestamp |-> timestamp]

NoRow == HistoryRow(0, "", "", EmptySummary, 0)

UserRow(id, username, password) ==
    [id |-> id, username |-> username, password |-> password]

\* a request as its handler sees it: the route, the client whose cookie it
\* carries, session.get("user") of that cookie, and the form fields
Request(route, client, file, text, id, filename) ==
    [route |-> route, client |-> client, user |-> session[client], file |-> file,
     text |-> text, password |-> <<>>, id |-> id, filename |-> filename]

NoRequest ==
    [route |-> "none", client |-> "none", user |-> NoUser, file |-> NoFile,
     text |-> <<>>, password |-> <<>>, id |-> 0, filename |-> ""]

Response(status, page, data) == [status |-> status, page |-> page, data |-> data]

NoResponse == Response(0, "none", <<>>)

\* redirect(url_for(target)) with the flashed message
Redirect(target, message) == Response(302, target, message)

ProtectedRoutes ==
    {"upload", "summary", "text_to_speech", "download_summary",
     "history", "history_detail"}

\* generate_password_hash: salted one-way hash
generate_password_hash(password, salt) ==
    [salt |-> salt, digest |-> <<salt, password>>]

check_password_hash(pwhash, password) ==
    pwhash.digest = <<pwhash.salt, password>>

\* SELECT password FROM users WHERE username=?  (fetchone)
UserRowsFor(email) == {i \in 1..Len(users) : users[i].username = email}

\* SELECT ... FROM history WHERE id=?  (fetchone)
HistoryRowsFor(id) == {i \in 1..Len(history) : history[i].id = id}

\* f"{uuid.uuid4()}.mp3": a name no other audio file has
UuidInUse(n) ==
    LET name == "uuid" \o ToString(n) \o ".mp3"
    IN  \/ \E i \in 1..Len(history) : history[i].filename = name
        \/ \E w \in Workers : req[w].filename = name

NewAudioName ==
    LET n == CHOOSE k \in 1..(MaxHistory + Cardinality(Workers) + 1) :
                 /\ ~UuidInUse(k)
                 /\ \A j \in 1..(k - 1) : UuidInUse(j)
    IN  "uuid" \o ToString(n) \o ".mp3"

-----------------------------------------------------------------------------
(* Summarization logic *)

Outcomes == {"ok", "raise"}

Call(backend, text) == [backend |-> backend, text |-> text]

\* the extractive fallback, lines 355-357
Fallback(t, before, fallbackOutcome) ==
    IF fallbackOutcome = "ok"
    THEN [raised |-> FALSE, value |-> LexRankResult(t),
          calls |-> before \o <<Call("lexrank", t)>>]
    ELSE [raised |-> TRUE, value |-> EmptySummary,
          calls |-> before \o <<Call("lexrank", t)>>]

\* generate_summary with no except clause around the primary model
generate_summary_unswallowed(text, hf, primaryOutcome, fallbackOutcome) ==
    LET t == Take(Strip(text), SummaryInputMax)
    IN  IF hf # NoModel
        THEN IF primaryOutcome = "ok"
             THEN [raised |-> FALSE, value |-> HfResult(t),
                   calls |-> <<Call("bart", t)>>]
             ELSE [raised |-> TRUE, value |-> EmptySummary,
                   calls |-> <<Call("bart", t)>>]
        ELSE Fallback(t, <<>>, fallbackOutcome)

\* generate_summary(text) with the module global hf and what the two back
\* ends do when they are invoked
generate_summary(text, hf, primaryOutcome, fallbackOutcome) ==
    LET t == Take(Strip(text), SummaryInputMax)
    IN  IF hf # NoModel
        THEN IF primaryOutcome = "ok"
             THEN [raised |-> FALSE, value |-> HfResult(t),
                   calls |-> <<Call("bart", t)>>]
             ELSE Fallback(t, <<Call("bart", t)>>, fallbackOutcome)
        ELSE Fallback(t, <<>>, fallbackOutcome)

-----------------------------------------------------------------------------
(* Text extraction of the upload route *)

\* the for loop over reader.pages inside the try block, lines 264-272
RECURSIVE ReadPages(_, _)
ReadPages(pages, acc) ==
    IF pages = <<>> THEN [text |-> acc, error |-> FALSE]
    ELSE IF Head(pages).raises THEN [text |-> acc, error |-> TRUE]
    ELSE ReadPages(Tail(pages),
                   IF Head(pages).text # <<>>
                   THEN Concat(Concat(acc, Head(pages).text), Str(" ", 1))
                   ELSE acc)

\* lines 260-272: original_text and whether "PDF read error" was set
ExtractText(file, pdfModule) ==
    IF EndsWith(Lower(file.filename), ".txt")
    THEN [text |-> file.text, error |-> FALSE]
    ELSE IF EndsWith(Lower(file.filename), ".pdf") /\ pdfModule # NoModule
    THEN IF file.opens THEN ReadPages(file.pages, <<>>)
         ELSE [text |-> <<>>, error |-> TRUE]
    ELSE [text |-> <<>>, error |-> FALSE]

-----------------------------------------------------------------------------
(* State *)

db == <<users, history, sqlite_sequence, dbWriter, pending>>
modules == <<hf_summarizer, PyPDF2>>
locals == <<original_text, summary_output, calls, trace, rec>>

\* module import and init_db(), lines 19-35 and 55-93
Init ==
    /\ users = <<>>
    /\ history = <<>>
    /\ sqlite_sequence = 0
    /\ dbWriter = NoWorker
    /\ pending = [w \in Workers |-> NoRow]
    /\ now = 0
    /\ session = [c \in Clients |-> NoUser]
    /\ hf_summarizer \in {NoModel, "bart"}
    /\ PyPDF2 \in {NoModule, "PyPDF2"}
    /\ pc = [w \in Workers |-> "idle"]
    /\ req = [w \in Workers |-> NoRequest]
    /\ original_text = [w \in Workers |-> <<>>]
    /\ summary_output = [w \in Workers |-> EmptySummary]
    /\ calls = [w \in Workers |-> <<>>]
    /\ trace = [w \in Workers |-> <<>>]
    /\ rec = [w \in Workers |-> <<>>]
    /\ resp = [w \in Workers |-> NoResponse]

\* requests that are past their input checks and may still reach add_history
Recording == {w \in Workers : pc[w] \in {"summarize", "synth", "insert", "commit"}}

RoomInHistory == Len(history) + Cardinality(Recording) < MaxHistory

\* the worker returns the response of a request it served without more steps
Reply(w, request, response) ==
    /\ pc' = [pc EXCEPT ![w] = "done"]
    /\ req' = [req EXCEPT ![w] = request]
    /\ resp' = [resp EXCEPT ![w] = response]

\* the worker goes on to the next step of the request
Goto(w, request, label) ==
    /\ pc' = [pc EXCEPT ![w] = label]
    /\ req' = [req EXCEPT ![w] = request]
    /\ resp' = resp

-----------------------------------------------------------------------------
(* Auth *)

\* login_required: "user" not in session
LoginRequired(w, c, route) ==
    /\ pc[w] = "idle"
    /\ session[c] = NoUser
    /\ Reply(w, Request(route, c, NoFile, <<>>, 0, ""),
             Redirect("login", "Please login first"))
    /\ UNCHANGED <<db, now, session, modules, locals>>

\* POST /register
register(w, c, name_, email_, password_, confirm_, salt) ==
    LET name == Strip(name_)
        email == Strip(email_)
        password == Strip(password_)
        confirm_password == Strip(confirm_)
        request == Request("register", c, NoFile, email, 0, "")
    IN  /\ pc[w] = "idle"
        /\ IF name = <<>> \/ email = <<>> \/ password = <<>> \/ confirm_password = <<>>
           THEN /\ Reply(w, request, Redirect("register", "Please fill all fields"))
                /\ users' = users
           ELSE IF password # confirm_password
           THEN /\ Reply(w, request, Redirect("register", "Passwords do not match!"))
                /\ users' = users
           ELSE /\ dbWriter = NoWorker
                /\ IF UserRowsFor(email) # {}
                   THEN /\ Reply(w, request,
                                 Redirect("register", "Email already exists!"))
                        /\ users' = users
                   ELSE /\ users' = Append(users,
                               UserRow(Len(users) + 1, email,
                                       generate_password_hash(password, salt)))
                        /\ Reply(w, request,
                                 Redirect("login", "Registration successful! Please login."))
        /\ UNCHANGED <<history, sqlite_sequence, dbWriter, pending, now, session,
                       modules, locals>>

\* login that only looks the username up and never checks the password
login_unchecked(w, c, email_, password_) ==
    LET email == Strip(email_)
        password == Strip(password_)
        rows == UserRowsFor(email)
        request == [Request("login", c, NoFile, email, 0, "")
                        EXCEPT !.password = password]
    IN  /\ pc[w] = "idle"
        /\ IF rows # {}
           THEN /\ session' = [session EXCEPT ![c] = email]
                /\ Reply(w, request, Redirect("dashboard", "Login successful!"))
           ELSE /\ session' = session
                /\ Reply(w, request, Redirect("login", "Invalid email or password"))
        /\ UNCHANGED <<db, now, modules, locals>>

\* POST /login
login(w, c, email_, password_) ==
    LET email == Strip(email_)
        password == Strip(password_)
        rows == UserRowsFor(email)
        request == [Request("login", c, NoFile, email, 0, "")
                        EXCEPT !.password = password]
    IN  /\ pc[w] = "idle"
        /\ IF rows # {} /\ check_password_hash(users[CHOOSE i \in rows : TRUE].password,
                                                password)
           THEN /\ session' = [session EXCEPT ![c] = email]
                /\ Reply(w, request, Redirect("dashboard", "Login successful!"))
           ELSE /\ session' = session
                /\ Reply(w, request, Redirect("login", "Invalid email or password"))
        /\ UNCHANGED <<db, now, modules, locals>>

\* GET /logout
logout(w, c) ==
    /\ pc[w] = "idle"
    /\ session' = [session EXCEPT ![c] = NoUser]
    /\ Reply(w, Request("logout", c, NoFile, <<>>, 0, ""),
             Redirect("login", "Logged out successfully"))
    /\ UNCHANGED <<db, now, modules, locals>>

-----------------------------------------------------------------------------
(* History views *)

IndexOrders(n) ==
    {p \in [1..n -> 1..n] : \A i, j \in 1..n : i # j => p[i] # p[j]}

\* SELECT ... FROM history ORDER BY timestamp DESC: every order of the rows that
\* is descending in timestamp; the order of rows with equal timestamps is not
\* fixed by the statement
OrderByTimestampDesc(rows) ==
    {[i \in 1..Len(rows) |-> rows[p[i]]] : p \in
        {q \in IndexOrders(Len(rows)) :
            \A i, j \in 1..Len(rows) :
                i < j => rows[q[i]].timestamp >= rows[q[j]].timestamp}}

\* GET /history
history_page(w, c) ==
    /\ pc[w] = "idle"
    /\ session[c] # NoUser
    /\ \E rows \in OrderByTimestampDesc(history) :
           Reply(w, Request("history", c, NoFile, <<>>, 0, ""),
                 Response(200, "history", rows))
    /\ UNCHANGED <<db, now, session, modules, locals>>

\* history_detail with the WHERE clause lost: fetchone() of the whole table
history_detail_any(w, c, history_id) ==
    LET request == Request("history_detail", c, NoFile, <<>>, history_id, "")
    IN  /\ pc[w] = "idle"
        /\ session[c] # NoUser
        /\ IF history = <<>>
           THEN Reply(w, request, Response(404, "not_found", <<>>))
           ELSE Reply(w, request, Response(200, "history_detail", <<history[1]>>))
        /\ UNCHANGED <<db, now, session, modules, locals>>

\* GET /history/<int:history_id>
history_detail(w, c, history_id) ==
    LET rows == HistoryRowsFor(history_id)
        request == Request("history_detail", c, NoFile, <<>>, history_id, "")
    IN  /\ pc[w] = "idle"
        /\ session[c] # NoUser
        /\ IF rows = {}
           THEN Reply(w, request, Response(404, "not_found", <<>>))
           ELSE Reply(w, request,
                      Response(200, "history_detail",
                               <<history[CHOOSE i \in rows : TRUE]>>))
        /\ UNCHANGED <<db, now, session, modules, locals>>

\* POST /download_summary
download_summary(w, c, text) ==
    LET summary_text == Strip(text)
        request == Request("download_summary", c, NoFile, text, 0, "")
    IN  /\ pc[w] = "idle"
        /\ session[c] # NoUser
        /\ IF summary_text = <<>>
           THEN Reply(w, request, Response(400, "error", <<>>))
           ELSE Reply(w, request, Response(200, "summary.pdf", summary_text))
        /\ UNCHANGED <<db, now, session, modules, locals>>

-----------------------------------------------------------------------------
(* Requests that record history *)

\* POST /upload up to the call of generate_summary, lines 249-274 and 278-283
upload_page(w, c, file) ==
    LET request == Request("upload", c, file, <<>>, 0, file.filename)
        extracted == ExtractText(file, PyPDF2)
    IN  /\ pc[w] = "idle"
        /\ session[c] # NoUser
        /\ IF file.filename = ""
           THEN /\ Reply(w, request,
                         Response(200, "upload",
                                  [message |-> "No file selected.",
                                   summary |-> EmptySummary]))
                /\ UNCHANGED <<original_text, trace>>
           ELSE /\ original_text' = [original_text EXCEPT ![w] = extracted.text]
                /\ trace' = [trace EXCEPT ![w] = <<"extract">>]
                /\ IF Strip(extracted.text) # <<>>
                   THEN /\ RoomInHistory
                        /\ Goto(w, request, "summarize")
                   ELSE Reply(w, request,
                              Response(200, "upload",
                                       [message |-> "No readable text found.",
                                        summary |-> EmptySummary]))
        /\ UNCHANGED <<db, now, session, modules, summary_output, calls, rec>>

\* POST /summary up to the call of generate_summary, lines 289-295 and 298-301
summary_page(w, c, text) ==
    LET request == Request("summary", c, NoFile, text, 0, TextInputName)
        stripped == Strip(text)
    IN  /\ pc[w] = "idle"
        /\ session[c] # NoUser
        /\ original_text' = [original_text EXCEPT ![w] = stripped]
        /\ IF stripped # <<>>
           THEN /\ RoomInHistory
                /\ Goto(w, request, "summarize")
           ELSE Reply(w, request,
                      Response(200, "summary",
                               [message |-> "No text provided.",
                                summary |-> EmptySummary]))
        /\ UNCHANGED <<db, now, session, modules, summary_output, calls, trace, rec>>

\* Summarize with the exception of the fallback caught and the action recorded
\* with an empty summary
SummarizeRecordingFailure(w) ==
    /\ pc[w] = "summarize"
    /\ \E primaryOutcome \in Outcomes, fallbackOutcome \in Outcomes :
         LET r == generate_summary(original_text[w], hf_summarizer,
                                   primaryOutcome, fallbackOutcome)
         IN  /\ calls' = [calls EXCEPT ![w] = r.calls]
             /\ summary_output' = [summary_output EXCEPT ![w] = r.value]
             /\ trace' = [trace EXCEPT ![w] = Append(@, "summarize")]
             /\ Goto(w, req[w], "insert")
    /\ UNCHANGED <<db, now, session, modules, original_text, rec>>

\* summary_output = generate_summary(original_text), lines 275 and 296; an
\* exception of the fallback leaves the handler
Summarize(w) ==
    /\ pc[w] = "summarize"
    /\ \E primaryOutcome \in Outcomes, fallbackOutcome \in Outcomes :
         LET r == generate_summary(original_text[w], hf_summarizer,
                                   primaryOutcome, fallbackOutcome)
         IN  /\ calls' = [calls EXCEPT ![w] = r.calls]
             /\ IF r.raised
                THEN /\ Reply(w, req[w], Response(500, "error", <<>>))
                     /\ UNCHANGED <<summary_output, trace>>
                ELSE /\ summary_output' = [summary_output EXCEPT ![w] = r.value]
                     /\ trace' = [trace EXCEPT ![w] = Append(@, "summarize")]
                     /\ Goto(w, req[w], "insert")
    /\ UNCHANGED <<db, now, session, modules, original_text, rec>>

\* POST /text-to-speech up to gTTS, lines 307-312
text_to_speech(w, c, text_) ==
    LET text == Strip(text_)
    IN  /\ pc[w] = "idle"
        /\ session[c] # NoUser
        /\ original_text' = [original_text EXCEPT ![w] = text]
        /\ IF TLen(text) < VoiceTextMin
           THEN Reply(w, Request("text_to_speech", c, NoFile, text_, 0, ""),
                      Response(400, "json", [error |-> "Text too short"]))
           ELSE /\ RoomInHistory
                /\ Goto(w, Request("text_to_speech", c, NoFile, text_, 0, NewAudioName),
                        "synth")
        /\ UNCHANGED <<db, now, session, modules, summary_output, calls, trace, rec>>

\* gTTS(text=text, lang="en") and tts.save(filepath), lines 314-318
Synthesize(w) ==
    /\ pc[w] = "synth"
    /\ \E outcome \in Outcomes :
         IF outcome = "ok"
         THEN /\ trace' = [trace EXCEPT ![w] = Append(@, "synthesize")]
              /\ Goto(w, req[w], "insert")
         ELSE /\ trace' = trace
              /\ Reply(w, req[w], Response(500, "json", [error |-> "gTTS"]))
    /\ UNCHANGED <<db, now, session, modules, original_text, summary_output, calls, rec>>

\* the whole text stored, to be cut when it is displayed
VoiceExcerptFull(text) == Summary("str", text)

\* text[:150], line 320
VoiceExcerpt(text) == Summary("str", Take(text, VoiceExcerptMax))

\* HistoryArgs of an upload handler that leaves summary at its default ""
HistoryArgsDefaultSummary(w) ==
    CASE req[w].route = "upload" ->
            [action |-> ActUpload, filename |-> req[w].filename,
             summary |-> EmptySummary]
      [] req[w].route = "summary" ->
            [action |-> ActText, filename |-> TextInputName,
             summary |-> summary_output[w]]
      [] OTHER ->
            [action |-> ActVoice, filename |-> req[w].filename,
             summary |-> VoiceExcerpt(original_text[w])]

\* the arguments of the handler's add_history call, lines 276, 297 and 320
HistoryArgs(w) ==
    CASE req[w].route = "upload" ->
            [action |-> ActUpload, filename |-> req[w].filename,
             summary |-> summary_output[w]]
      [] req[w].route = "summary" ->
            [action |-> ActText, filename |-> TextInputName,
             summary |-> summary_output[w]]
      [] OTHER ->
            [action |-> ActVoice, filename |-> req[w].filename,
             summary |-> VoiceExcerpt(original_text[w])]

\* AddHistoryExecute with no writer exclusion: the id is read without the lock
AddHistoryExecuteUnlocked(w) ==
    LET args == HistoryArgs(w)
    IN  /\ pc[w] = "insert"
        /\ dbWriter' = w
        /\ pending' = [pending EXCEPT ![w] =
               HistoryRow(sqlite_sequence + 1, args.action, args.filename,
                          args.summary, now)]
        /\ Goto(w, req[w], "commit")
        /\ UNCHANGED <<users, history, sqlite_sequence, now, session, modules, locals>>

\* add_history: c.execute("INSERT ...") in the connection's own transaction;
\* sqlite admits one writer, and gives the row the next AUTOINCREMENT id and
\* CURRENT_TIMESTAMP
AddHistoryExecute(w) ==
    LET args == HistoryArgs(w)
    IN  /\ pc[w] = "insert"
        /\ dbWriter = NoWorker
        /\ dbWriter' = w
        /\ pending' = [pending EXCEPT ![w] =
               HistoryRow(sqlite_sequence + 1, args.action, args.filename,
                          args.summary, now)]
        /\ Goto(w, req[w], "commit")
        /\ UNCHANGED <<users, history, sqlite_sequence, now, session, modules, locals>>

\* what the handler returns after add_history, lines 277-283, 301 and 322
Rendered(w) ==
    CASE req[w].route = "upload" ->
            Response(200, "upload",
                     [message |-> "File summarized successfully!",
                      summary |-> summary_output[w]])
      [] req[w].route = "summary" ->
            Response(200, "summary",
                     [message |-> "", summary |-> summary_output[w]])
      [] OTHER ->
            Response(200, "json", [audio_url |-> req[w].filename])

\* AddHistoryCommit as an upsert: the new row takes the place of the latest one
AddHistoryCommitReplacing(w) ==
    /\ pc[w] = "commit"
    /\ history' = IF history = <<>> THEN <<pending[w]>>
                  ELSE [history EXCEPT ![Len(history)] = pending[w]]
    /\ sqlite_sequence' = pending[w].id
    /\ dbWriter' = NoWorker
    /\ pending' = [pending EXCEPT ![w] = NoRow]
    /\ rec' = [rec EXCEPT ![w] = Append(@, pending[w].id)]
    /\ trace' = [trace EXCEPT ![w] = Append(@, "record")]
    /\ Reply(w, req[w], Rendered(w))
    /\ UNCHANGED <<users, now, session, modules, original_text, summary_output, calls>>

\* add_history: conn.commit() and conn.close(); then the handler returns
AddHistoryCommit(w) ==
    /\ pc[w] = "commit"
    /\ history' = Append(history, pending[w])
    /\ sqlite_sequence' = pending[w].id
    /\ dbWriter' = NoWorker
    /\ pending' = [pending EXCEPT ![w] = NoRow]
    /\ rec' = [rec EXCEPT ![w] = Append(@, pending[w].id)]
    /\ trace' = [trace EXCEPT ![w] = Append(@, "record")]
    /\ Reply(w, req[w], Rendered(w))
    /\ UNCHANGED <<users, now, session, modules, original_text, summary_output, calls>>

-----------------------------------------------------------------------------
(* Environment *)

\* the server clock advances by a second
Tick ==
    /\ now < MaxTime
    /\ now' = now + 1
    /\ UNCHANGED <<db, session, modules, pc, req, resp, locals>>

\* the response has been sent; the worker takes the next request
Return(w) ==
    /\ pc[w] = "done"
    /\ pc' = [pc EXCEPT ![w] = "idle"]
    /\ req' = [req EXCEPT ![w] = NoRequest]
    /\ resp' = [resp EXCEPT ![w] = NoResponse]
    /\ original_text' = [original_text EXCEPT ![w] = <<>>]
    /\ summary_output' = [summary_output EXCEPT ![w] = EmptySummary]
    /\ calls' = [calls EXCEPT ![w] = <<>>]
    /\ trace' = [trace EXCEPT ![w] = <<>>]
    /\ rec' = [rec EXCEPT ![w] = <<>>]
    /\ UNCHANGED <<db, now, session, modules>>

\* the steps of the requests in flight
Step(w) ==
    \/ Summarize(w)
    \/ Synthesize(w)
    \/ AddHistoryExecute(w)
    \/ AddHistoryCommit(w)
    \/ Return(w)

\* the process started with both optional imports present
InitLoaded ==
    /\ Init
    /\ hf_summarizer = "bart"
    /\ PyPDF2 = "PyPDF2"

\* the process started without the primary model (lines 22-24)
InitFallback ==
    /\ Init
    /\ hf_summarizer = NoModel
    /\ PyPDF2 = "PyPDF2"

OneText == {Padded}
OneEmail == {Str("a", 1)}
OnePassword == {Str("p", 1)}
OneName == {Str("n", 1)}

\* concurrent workers, registration, login and logout, every route, few inputs
Next ==
    \/ \E w \in Workers, c \in Clients, route \in ProtectedRoutes :
           LoginRequired(w, c, route)
    \/ \E w \in Workers, c \in Clients, name \in NameInputs, email \in RegisterEmails,
          password \in PasswordInputs, confirm \in PasswordInputs, salt \in Salts :
           register(w, c, name, email, password, confirm, salt)
    \/ \E w \in Workers, c \in Clients, email \in LoginEmails,
          password \in PasswordInputs :
           login(w, c, email, password)
    \/ \E w \in Workers, c \in Clients : logout(w, c)
    \/ \E w \in Workers, c \in Clients : history_page(w, c)
    \/ \E w \in Workers, c \in Clients, id \in HistoryIds : history_detail(w, c, id)
    \/ \E w \in Workers, c \in Clients, text \in FewTexts : download_summary(w, c, text)
    \/ \E w \in Workers, c \in Clients, file \in FewFiles : upload_page(w, c, file)
    \/ \E w \in Workers, c \in Clients, text \in FewTexts : summary_page(w, c, text)
    \/ \E w \in Workers, c \in Clients, text \in FewTexts : text_to_speech(w, c, text)
    \/ \E w \in Workers : Step(w)

Spec == InitFallback /\ [][Next]_vars

\* concurrent workers recording and reading the ledger while the clock runs
NextLedger ==
    \/ \E w \in Workers, c \in Clients, name \in OneName, email \in OneEmail,
          password \in OnePassword, salt \in Salts :
           register(w, c, name, email, password, password, salt)
    \/ \E w \in Workers, c \in Clients, email \in OneEmail, password \in OnePassword :
           login(w, c, email, password)
    \/ \E w \in Workers, c \in Clients : history_page(w, c)
    \/ \E w \in Workers, c \in Clients, id \in HistoryIds : history_detail(w, c, id)
    \/ \E w \in Workers, c \in Clients, text \in OneText : summary_page(w, c, text)
    \/ \E w \in Workers, c \in Clients, text \in OneText : text_to_speech(w, c, text)
    \/ \E w \in Workers : Step(w)
    \/ Tick

SpecLedger == InitLoaded /\ [][NextLedger]_vars

\* one worker, every input and every configuration of the optional imports
NextInputs ==
    \/ \E c \in Clients, name \in OneName, email \in OneEmail,
          password \in OnePassword, salt \in Salts :
           register("w1", c, name, email, password, password, salt)
    \/ \E c \in Clients, email \in OneEmail, password \in OnePassword :
           login("w1", c, email, password)
    \/ \E c \in Clients : history_page("w1", c)
    \/ \E c \in Clients, file \in Files :
           Len(history) <= MaxEarlier /\ upload_page("w1", c, file)
    \/ \E c \in Clients, text \in FormTexts :
           Len(history) <= MaxEarlier /\ summary_page("w1", c, text)
    \/ \E c \in Clients, text \in FormTexts :
           Len(history) <= MaxEarlier /\ text_to_speech("w1", c, text)
    \/ Step("w1")

SpecInputs == Init /\ [][NextInputs]_vars

-----------------------------------------------------------------------------
(* The history ledger *)

RecordingRoutes == {"upload", "summary", "text_to_speech"}

\* worker w has returned the response of a request of the given route
Served(w, route) == pc[w] = "done" /\ req[w].route = route

\* C1: the ledger is append-only. No step of any request (register, login,
\* logout, upload, summary, text-to-speech, download, history list, history
\* detail) removes a row or changes the id, action, filename, summary or
\* timestamp of a row that was recorded.
AppendOnly ==
    [][/\ Len(history') >= Len(history)
       /\ \A i \in 1..Len(history) : history'[i] = history[i]]_vars

\* C1 witness: two rows are recorded and a later logout has been served
AppendOnlyWitness ==
    /\ Len(history) = 2
    /\ history[1] # history[2]
    /\ \E w \in Workers : Served(w, "logout")
    /\ \E w \in Workers : Served(w, "history_detail") /\ resp[w].status = 200

\* C2: concurrent add_history calls each insert exactly one row; the ids are
\* pairwise distinct and form the gap-free increasing run 1, 2, ...; a listing
\* holds each recorded row exactly once.
ConcurrentRecords ==
    /\ \A i \in 1..Len(history) : history[i].id = i
    /\ sqlite_sequence = Len(history)
    /\ \A w \in Workers :
         (pc[w] = "done" /\ req[w].route \in RecordingRoutes /\ resp[w].status = 200)
           => /\ Len(rec[w]) = 1
              /\ Cardinality(HistoryRowsFor(rec[w][1])) = 1
    /\ \A v, w \in Workers :
         (v # w /\ rec[v] # <<>> /\ rec[w] # <<>>) => rec[v][1] # rec[w][1]
    /\ \A w \in Workers :
         Served(w, "history") =>
           LET rows == resp[w].data
           IN  /\ Len(rows) <= Len(history)
               /\ \A k \in 1..Len(rows) :
                    Cardinality({j \in 1..Len(rows) : rows[j] = history[k]}) = 1

\* C2 witness: two record calls of different workers, made within the same
\* second, have both returned
ConcurrentRecordsWitness ==
    \E v, w \in Workers :
        /\ v # w
        /\ pc[v] = "done" /\ rec[v] = <<1>>
        /\ pc[w] = "done" /\ rec[w] = <<2>>
        /\ history[1].timestamp = history[2].timestamp
        /\ req[v].route = "summary" /\ req[w].route = "text_to_speech"

\* C3: a listing made right after a record call shows the newly recorded row
\* first, also when rows share a timestamp (ties broken by id).
NewestFirst ==
    \A w \in Workers :
        (Served(w, "history") /\ history # <<>>
           /\ Len(resp[w].data) = Len(history))
          => resp[w].data[1] = history[Len(history)]

\* C7: history_detail answers 404 for every id no record call has returned and
\* the stored row for every id one has; the lookup leaves the ledger as it is.
DetailLookup ==
    [][\A w \in Workers :
         (pc[w] = "idle" /\ pc'[w] = "done" /\ req'[w].route = "history_detail"
            /\ resp'[w].status # 302)
           => /\ history' = history
              /\ sqlite_sequence' = sqlite_sequence
              /\ IF req'[w].id \in 1..sqlite_sequence
                 THEN /\ resp'[w].status = 200
                      /\ resp'[w].data = <<history[req'[w].id]>>
                      /\ resp'[w].data[1].id = req'[w].id
                 ELSE resp'[w].status = 404]_vars

\* C7 witness: one lookup found the second row while another id was unknown
DetailLookupWitness ==
    \E v, w \in Workers :
        /\ Served(v, "history_detail") /\ resp[v].status = 200 /\ req[v].id = 2
        /\ Served(w, "history_detail") /\ resp[w].status = 404 /\ req[w].id = 3

-----------------------------------------------------------------------------
(* Requests and the ledger *)

\* the request of worker w produced its artifact (a summary, an audio file)
ArtifactProduced(w) ==
    \E k \in 1..Len(trace[w]) : trace[w][k] \in {"summarize", "synthesize"}

Recorded(w) == \E k \in 1..Len(trace[w]) : trace[w][k] = "record"

\* C4: a request that produces a durable artifact creates exactly one history
\* entry, after the artifact: extraction, then summarization (or synthesis),
\* then recording; the recorded summary is the summary returned to the user.
OneEntryAfterArtifact ==
    \A w \in Workers :
        /\ Recorded(w) => ArtifactProduced(w)
        /\ (pc[w] = "done" /\ ArtifactProduced(w)) =>
             /\ Len(rec[w]) = 1
             /\ rec[w][1] \in 1..Len(history)
             /\ resp[w].status = 200
             /\ LET row == history[rec[w][1]]
                IN  CASE req[w].route = "upload" ->
                           /\ trace[w] = <<"extract", "summarize", "record">>
                           /\ row.action = ActUpload
                           /\ row.filename = req[w].file.filename
                           /\ row.summary = resp[w].data.summary
                           /\ row.summary = summary_output[w]
                           /\ row.summary.by \in {"bart", "lexrank"}
                      [] req[w].route = "summary" ->
                           /\ trace[w] = <<"summarize", "record">>
                           /\ row.action = ActText
                           /\ row.filename = TextInputName
                           /\ row.summary = resp[w].data.summary
                           /\ row.summary.by \in {"bart", "lexrank"}
                      [] OTHER ->
                           /\ trace[w] = <<"synthesize", "record">>
                           /\ row.action = ActVoice
                           /\ row.filename = resp[w].data.audio_url

\* C4 witness: an upload was summarized by the fallback after the primary model
\* raised, and is recorded as the second row
OneEntryAfterArtifactWitness ==
    \E w \in Workers :
        /\ Served(w, "upload")
        /\ rec[w] = <<2>>
        /\ Len(calls[w]) = 2
        /\ history[2].summary = resp[w].data.summary

\* the request of worker w ended in one of the errors of the claim
EndedInError(w) ==
    /\ pc[w] = "done"
    /\ \/ req[w].route = "summary" /\ Strip(req[w].text) = <<>>
       \/ req[w].route = "upload" /\ req[w].file.filename = ""
       \/ req[w].route = "upload"
            /\ Strip(ExtractText(req[w].file, PyPDF2).text) = <<>>
       \/ req[w].route = "text_to_speech" /\ TLen(Strip(req[w].text)) < VoiceTextMin
       \/ req[w].route \in RecordingRoutes /\ resp[w].status \in {400, 500}

\* C5: a request that ends in an error creates no history entry: empty text,
\* no file selected, no readable text, voice text under 5 characters, speech
\* synthesis raising, the fallback summarizer raising.
ErrorsRecordNothing ==
    \A w \in Workers :
        EndedInError(w) =>
            /\ rec[w] = <<>>
            /\ ~Recorded(w)
            /\ pending[w] = NoRow
            /\ dbWriter # w
            /\ \A i \in 1..Len(history) :
                 history[i].summary.by \in {"bart", "lexrank"}
                   \/ history[i].action = ActVoice

\* C5 witness: after one row was recorded, a summary request failed because
\* the fallback summarizer raised
ErrorsRecordNothingWitness ==
    \E w \in Workers :
        /\ Served(w, "summary")
        /\ resp[w].status = 500
        /\ calls[w] # <<>>
        /\ calls[w][Len(calls[w])].backend = "lexrank"
        /\ Len(history) = 1

-----------------------------------------------------------------------------
(* The summarizer *)

CallsOf(w, backend) == {k \in 1..Len(calls[w]) : calls[w][k].backend = backend}

\* C6: a failure of the primary model is swallowed and the fallback runs on the
\* same trimmed text cut to 3000 characters; the result with a primary that
\* raises equals the result with no primary configured; per call the primary
\* is invoked at most once, never when it was not loaded, and the fallback at
\* most once.
FallbackEquivalence ==
    \A w \in Workers :
        LET t == Take(Strip(original_text[w]), SummaryInputMax)
            absent == generate_summary(original_text[w], NoModel, "raise", "ok")
        IN  /\ Cardinality(CallsOf(w, "bart")) <= 1
            /\ Cardinality(CallsOf(w, "lexrank")) <= 1
            /\ hf_summarizer = NoModel => CallsOf(w, "bart") = {}
            /\ \A k \in 1..Len(calls[w]) :
                 /\ calls[w][k].text = t
                 /\ TLen(calls[w][k].text) <= SummaryInputMax
            /\ CallsOf(w, "bart") # {} => 1 \in CallsOf(w, "bart")
            \* the request failed only if the fallback itself was run and raised
            /\ (pc[w] = "done" /\ req[w].route \in {"upload", "summary"}
                  /\ resp[w].status = 500) => CallsOf(w, "lexrank") # {}
            \* the fallback ran: the summary is the one of the absent primary
            /\ (pc[w] \in {"insert", "commit", "done"} /\ CallsOf(w, "lexrank") # {}
                  /\ resp[w].status # 500)
                 => /\ summary_output[w] = absent.value
                    /\ summary_output[w] = LexRankResult(t)

\* C6 witness: the primary raised on a text longer than 3000 characters and
\* the request returned the fallback's summary of the first 3000
FallbackEquivalenceWitness ==
    \E w \in Workers :
        /\ Served(w, "summary")
        /\ resp[w].status = 200
        /\ TLen(original_text[w]) > SummaryInputMax
        /\ Len(calls[w]) = 2
        /\ TLen(summary_output[w].of) = SummaryInputMax
        /\ summary_output[w].by = "lexrank"

-----------------------------------------------------------------------------
(* Text to speech *)

\* C8: a "Voice Generated" entry whose text is longer than 150 characters
\* stores exactly the first 150 characters, and a listing returns that stored
\* value: the cut is made when the entry is recorded.
VoiceExcerptStored ==
    /\ \A w \in Workers :
         (Served(w, "text_to_speech") /\ resp[w].status = 200) =>
            LET text == Strip(req[w].text)
                row == history[rec[w][1]]
            IN  /\ row.action = ActVoice
                /\ row.summary.by = "str"
                /\ IsPrefix(row.summary.of, text)
                /\ TLen(text) > VoiceExcerptMax
                     => TLen(row.summary.of) = VoiceExcerptMax
                /\ TLen(text) <= VoiceExcerptMax => row.summary.of = text
    /\ \A i \in 1..Len(history) :
         history[i].action = ActVoice
           => TLen(history[i].summary.of) <= VoiceExcerptMax
    /\ \A w \in Workers :
         Served(w, "history") =>
            \A k \in 1..Len(resp[w].data) :
                /\ resp[w].data[k].id \in 1..Len(history)
                /\ resp[w].data[k] = history[resp[w].data[k].id]

\* C8 witness: a listing returns a voice entry of exactly 150 characters, cut
\* from a longer text
VoiceExcerptStoredWitness ==
    \E w \in Workers :
        /\ Served(w, "history")
        /\ \E k \in 1..Len(resp[w].data) :
             /\ resp[w].data[k].action = ActVoice
             /\ TLen(resp[w].data[k].summary.of) = VoiceExcerptMax
             /\ resp[w].data[k].summary.of = <<Run("a", VoiceExcerptMax)>>

-----------------------------------------------------------------------------
(* PDF extraction *)

\* the texts of the pages that extract, each followed by a space, in page order
RECURSIVE EveryReadablePage(_)
EveryReadablePage(pages) ==
    IF pages = <<>> THEN <<>>
    ELSE IF Head(pages).raises \/ Head(pages).text = <<>>
         THEN EveryReadablePage(Tail(pages))
         ELSE Concat(Concat(Head(pages).text, Str(" ", 1)),
                     EveryReadablePage(Tail(pages)))

\* C9: PDF extraction is per-page best effort: a page on which the parser
\* raises is skipped and the following pages are still read, so the text is
\* that of every page that extracts; "no text found" is reported only when no
\* page yields text.
PerPageBestEffort ==
    \A w \in Workers :
        (pc[w] # "idle" /\ req[w].route = "upload" /\ req[w].user # NoUser
           /\ EndsWith(Lower(req[w].file.filename), ".pdf")
           /\ req[w].file.opens /\ PyPDF2 # NoModule)
          => /\ original_text[w] = EveryReadablePage(req[w].file.pages)
             /\ (pc[w] = "done" /\ resp[w].data.message = "No readable text found.")
                  => \A k \in 1..Len(req[w].file.pages) :
                         \/ req[w].file.pages[k].raises
                         \/ req[w].file.pages[k].text = <<>>

-----------------------------------------------------------------------------
(* Login *)

\* worker w takes up a request in this step
Admits(w) == pc[w] = "idle" /\ pc'[w] # "idle"

\* a request to a protected route made while no user is in the session is
\* redirected to login and leaves the tables as they are
GatedStep ==
    \A w \in Workers :
        (Admits(w) /\ req'[w].route \in ProtectedRoutes
           /\ session[req'[w].client] = NoUser)
          => /\ pc'[w] = "done"
             /\ resp'[w].status = 302
             /\ resp'[w].page = "login"
             /\ history' = history
             /\ users' = users
             /\ rec'[w] = <<>>

\* a session comes to hold a user only by a login whose password matches the
\* stored hash of that registered username
LoginStep ==
    \A c \in Clients :
        (session'[c] # session[c] /\ session'[c] # NoUser)
          => \E w \in Workers :
                /\ Admits(w)
                /\ req'[w].route = "login"
                /\ req'[w].client = c
                /\ \E i \in 1..Len(users) :
                     /\ users[i].username = session'[c]
                     /\ users[i].password.digest =
                            <<users[i].password.salt, req'[w].password>>

\* no history row is added while the session of the request's client holds no user
LoggedOutStep ==
    \A w \in Workers :
        Len(rec'[w]) > Len(rec[w]) => session[req[w].client] # NoUser

\* a history row is added only by a request that was admitted with a user in
\* its session, on a recording route
AdmittedStep ==
    \A w \in Workers :
        Len(rec'[w]) > Len(rec[w])
          => /\ req[w].user # NoUser
             /\ req[w].route \in RecordingRoutes
             /\ \E i \in 1..Len(users) : users[i].username = req[w].user
             /\ Len(history') = Len(history) + 1

\* C10 as stated: unauthenticated requests are redirected and change nothing,
\* a session holds a user only after a matching login, and after logout no
\* history entry is added until a login succeeds again.
LedgerBehindLogin == [][GatedStep /\ LoginStep /\ LoggedOutStep]_vars

\* C10 amended: as stated, except that the entries shut out after logout are
\* those of requests admitted after it; a request admitted while the user was
\* logged in still records its entry when a logout is served meanwhile.
LedgerBehindLoginAtAdmission ==
    [][/\ GatedStep
       /\ LoginStep
       /\ AdmittedStep
       /\ (\A w \in Workers : Len(rec'[w]) >= Len(rec[w]))
            => Len(history') = Len(history)
                 \/ \E w \in Workers : Len(rec'[w]) > Len(rec[w])]_vars

\* C10 witness: after a login, a recorded entry and a logout, a request to a
\* protected route has been redirected to login
LedgerBehindLoginWitness ==
    /\ \A c \in Clients : session[c] = NoUser
    /\ Len(history) >= 1
    /\ \E w \in Workers :
         /\ Served(w, "text_to_speech")
         /\ resp[w].status = 302
         /\ resp[w].page = "login"
    /\ \E w \in Workers : Served(w, "logout")

====
